---- MODULE Spec2Model ----
(***************************************************************************)
(* A model of the RTU Canteen backend (src/main.py, src/schemas.py): the   *)
(* pricing engine calculate_totals, the create_order handler, the SMS      *)
(* summary formatter _format_orders_sms and the sms_recent_orders handler. *)
(*                                                                         *)
(* Text is a sequence of one-character strings, so that strip, lower,      *)
(* slicing and len are computed and not assumed.  The three non-ASCII      *)
(* characters of the source are written "RUPEE", "TIMES" and "ELLIPSIS";   *)
(* each is ONE element, as each is one character of a Python str.          *)
(*                                                                         *)
(* Money is an integer number of paise (1/100 rupee).  Every menu price is *)
(* a whole number of rupees and every quantity an integer, so the floats   *)
(* of the source hold these values exactly, and subtotal * 0.20 is within  *)
(* one ulp of a whole number of paise, which round(_, 2) returns.          *)
(***************************************************************************)
EXTENDS Integers, Sequences, FiniteSets, TLC

VARIABLES
    items,        \* calculate_totals: its argument
    totals,       \* calculate_totals: what it returned or raised
    store,        \* the "order" collection of the document store
    payload,      \* create_order: the request body
    response,     \* create_order: the response or the HTTP error
    createCalls,  \* create_order: the documents passed to create_document for this request
    orders,       \* _format_orders_sms: its argument
    text,         \* _format_orders_sms: its return value
    env,          \* the process environment read by sms_recent_orders
    smsPayload,   \* sms_recent_orders: the request body
    smsResponse,  \* sms_recent_orders: the response or the HTTP error
    sendCalls     \* sms_recent_orders: the messages passed to messages.create for this request

vars == <<items, totals, store, payload, response, createCalls,
          orders, text, env, smsPayload, smsResponse, sendCalls>>

-----------------------------------------------------------------------------
(* Python str and number helpers *)

UpperLetters == <<"A", "B", "C", "D", "E", "F", "G", "H", "I", "J", "K", "L", "M", "N", "O", "P", "Q", "R", "S", "T", "U", "V", "W", "X", "Y", "Z">>
LowerLetters == <<"a", "b", "c", "d", "e", "f", "g", "h", "i", "j", "k", "l", "m", "n", "o", "p", "q", "r", "s", "t", "u", "v", "w", "x", "y", "z">>
Whitespace == {" ", "\t", "\n"}

LowerChar(c) ==
    IF \E i \in 1..Len(UpperLetters) : UpperLetters[i] = c
    THEN LowerLetters[CHOOSE i \in 1..Len(UpperLetters) : UpperLetters[i] = c]
    ELSE c

\* str.lower()
Lower(s) == [i \in 1..Len(s) |-> LowerChar(s[i])]

\* str.strip(): drops the leading and the trailing whitespace
Strip(s) ==
    LET keep == {i \in 1..Len(s) : s[i] \notin Whitespace}
    IN  IF keep = {} THEN <<>>
        ELSE LET lo == CHOOSE i \in keep : \A j \in keep : i <= j
                 hi == CHOOSE i \in keep : \A j \in keep : j <= i
             IN  SubSeq(s, lo, hi)

Digits == <<"0", "1", "2", "3", "4", "5", "6", "7", "8", "9">>

RECURSIVE NatToStr(_)
NatToStr(n) ==
    IF n < 10 THEN <<Digits[n + 1]>>
    ELSE NatToStr(n \div 10) \o <<Digits[(n % 10) + 1]>>

\* str(n) of an int, as an f-string renders it
IntToStr(n) == IF n < 0 THEN <<"-">> \o NatToStr(0 - n) ELSE NatToStr(n)

\* round() of the rational num/den (den > 0) to an integer, ties to even
RoundHalfEven(num, den) ==
    LET q == num \div den
        r == num % den
    IN  IF 2 * r < den THEN q
        ELSE IF 2 * r > den THEN q + 1
        ELSE IF q % 2 = 0 THEN q ELSE q + 1

\* dict.get(key, default)
Get(d, key, default) == IF key \in DOMAIN d THEN d[key] ELSE default

-----------------------------------------------------------------------------
(* The static menu and the discount constants, in paise and percent *)

BEVERAGES == <<
    [name |-> <<"T", "e", "a">>, category |-> "beverage", price |-> 1000],
    [name |-> <<"C", "o", "f", "f", "e", "e">>, category |-> "beverage", price |-> 1000],
    [name |-> <<"C", "o", "l", "d", " ", "C", "o", "f", "f", "e", "e">>, category |-> "beverage", price |-> 3000],
    [name |-> <<"B", "a", "n", "a", "n", "a", " ", "S", "h", "a", "k", "e">>, category |-> "beverage", price |-> 9000] >>

FAST_FOOD == <<
    [name |-> <<"P", "a", "t", "t", "i", "e", "s">>, category |-> "fast-food", price |-> 2000],
    [name |-> <<"C", "o", "l", "d", " ", "D", "r", "i", "n", "k">>, category |-> "fast-food", price |-> 10000] >>

DISCOUNT_THRESHOLD == 29900
DISCOUNT_RATE == 20

\* schemas.OrderItem: the constructor validates its fields
OrderItemValid(it) == it.unit_price >= 0 /\ it.quantity >= 1 /\ it.subtotal >= 0

OrderItem(name, unit_price, quantity, subtotal) ==
    [name |-> name, unit_price |-> unit_price, quantity |-> quantity,
     subtotal |-> subtotal]

-----------------------------------------------------------------------------
(* calculate_totals *)

RECURSIVE BuildPriceMap(_, _, _)
BuildPriceMap(menu, i, map) ==
    IF i > Len(menu) THEN map
    ELSE BuildPriceMap(menu, i + 1, (Lower(menu[i].name) :> menu[i].price) @@ map)

\* the loop of lines 78-79: later entries overwrite earlier ones
menu_price_map == BuildPriceMap(BEVERAGES \o FAST_FOOD, 1, <<>>)

HTTPException(status_code, detail) ==
    [kind |-> "error", status_code |-> status_code, detail |-> detail]

\* line 84
LineName(raw) == Strip(Get(raw, "name", <<>>))

\* line 85
LineQuantity(raw) == Get(raw, "quantity", 0)

\* variant: a client-supplied unit_price is trusted when present
UnitPriceFromClient(raw, key) == Get(raw, "unit_price", menu_price_map[key])

\* lines 91-92: the server price; the client's unit_price is not read
UnitPrice(raw, key) == menu_price_map[key]

\* variant: the menu lookup is made before the name and quantity check
LineErrorLookupFirst(raw) ==
    LET name == LineName(raw)
    IN  IF Lower(name) \notin DOMAIN menu_price_map
        THEN HTTPException(400, <<"U", "n", "k", "n", "o", "w", "n", " ", "m", "e", "n", "u", " ", "i", "t", "e", "m", ":", " ">> \o name)
        ELSE IF name = <<>> \/ LineQuantity(raw) < 1
        THEN HTTPException(400, <<"I", "n", "v", "a", "l", "i", "d", " ", "i", "t", "e", "m", " ", "i", "n", " ", "o", "r", "d", "e", "r">>)
        ELSE [kind |-> "ok"]

\* lines 86-90: the two checks of one line, in the order the code makes them
LineError(raw) ==
    LET name == LineName(raw)
    IN  IF name = <<>> \/ LineQuantity(raw) < 1
        THEN HTTPException(400, <<"I", "n", "v", "a", "l", "i", "d", " ", "i", "t", "e", "m", " ", "i", "n", " ", "o", "r", "d", "e", "r">>)
        ELSE IF Lower(name) \notin DOMAIN menu_price_map
        THEN HTTPException(400, <<"U", "n", "k", "n", "o", "w", "n", " ", "m", "e", "n", "u", " ", "i", "t", "e", "m", ":", " ">> \o name)
        ELSE [kind |-> "ok"]

\* variant: the discount starts above 300.00 instead of 299.00
DiscountAbove300(subtotal) ==
    IF subtotal > 30000 THEN RoundHalfEven(subtotal * DISCOUNT_RATE, 100) ELSE 0

\* lines 97-99
Discount(subtotal) ==
    IF subtotal > DISCOUNT_THRESHOLD
    THEN RoundHalfEven(subtotal * DISCOUNT_RATE, 100)
    ELSE 0

\* variant: the quantity is left out of the line's subtotal
LineSubtotalIgnoringQuantity(unit_price, quantity) == unit_price

\* line 93
LineSubtotal(unit_price, quantity) == unit_price * quantity

\* lines 97-102: inspected is the number of lines the loop has read
Finish(order_items, subtotal, inspected) ==
    LET discount == Discount(subtotal)
    IN  [kind |-> "ok",
         order_items |-> order_items,
         subtotal |-> RoundHalfEven(subtotal, 1),
         discount |-> discount,
         total |-> RoundHalfEven(subtotal - discount, 1),
         inspected |-> inspected]

RECURSIVE TotalsLoop(_, _, _, _)
\* lines 83-95, from line i on
TotalsLoop(its, i, order_items, subtotal) ==
    IF i > Len(its) THEN Finish(order_items, subtotal, Len(its))
    ELSE LET raw == its[i]
             err == LineError(raw)
         IN  IF err.kind = "error"
             THEN [kind |-> "error", status_code |-> err.status_code,
                   detail |-> err.detail, inspected |-> i]
             ELSE LET name == LineName(raw)
                      quantity == LineQuantity(raw)
                      unit_price == UnitPrice(raw, Lower(name))
                      sub == LineSubtotal(unit_price, quantity)
                  IN  TotalsLoop(its, i + 1,
                          Append(order_items, OrderItem(name, unit_price, quantity, sub)),
                          subtotal + sub)

calculate_totals(its) == TotalsLoop(its, 1, <<>>, 0)

-----------------------------------------------------------------------------
(* Inputs *)

MaxLines == 2

LineNames == {<<"B", "a", "n", "a", "n", "a", " ", "S", "h", "a", "k", "e">>, <<" ", " ", "c", "o", "l", "d", " ", "D", "R", "I", "N", "K", " ">>, <<"P", "i", "z", "z", "a">>, <<" ", " ">>}
Quantities == {0, 1, 2}
\* a client-supplied unit_price: lower than, higher than the menu's, negative
ClientPrices == {100, 50000, 0 - 500}

RawLines ==
    [name : LineNames, quantity : Quantities]
    \cup [name : LineNames, quantity : Quantities, unit_price : ClientPrices]
    \cup {[quantity |-> 1], [name |-> <<"T", "e", "a">>],
          [name |-> <<" ", "t", "e", "a", "\t">>, quantity |-> 0 - 1]}

ItemLists == UNION {[1..n -> RawLines] : n \in 0..MaxLines}

NoResult == [kind |-> "none"]
Idle == [kind |-> "idle"]

-----------------------------------------------------------------------------
(* SpecPrice: calculate_totals applied to every bounded order-line list *)

InitPrice ==
    /\ items \in ItemLists
    /\ totals = NoResult
    /\ store = <<>> /\ payload = Idle /\ response = NoResult /\ createCalls = <<>>
    /\ orders = <<>> /\ text = <<>> /\ env = Idle
    /\ smsPayload = Idle /\ smsResponse = NoResult /\ sendCalls = <<>>

CalculateTotals ==
    /\ totals = NoResult
    /\ totals' = calculate_totals(items)
    /\ UNCHANGED <<items, store, payload, response, createCalls,
                   orders, text, env, smsPayload, smsResponse, sendCalls>>

NextPrice == CalculateTotals

SpecPrice == InitPrice /\ [][NextPrice]_vars

-----------------------------------------------------------------------------
(* create_order and the document store *)

\* schemas.Order, as create_order builds it; status takes its default
Order(p, order_items, subtotal, discount, total) ==
    [customer_name |-> p.customer_name,
     hostel_block |-> p.hostel_block,
     room_number |-> p.room_number,
     phone |-> p.phone,
     items |-> order_items,
     subtotal |-> subtotal,
     discount |-> discount,
     total |-> total,
     notes |-> p.notes,
     status |-> "placed"]

\* database.create_document: the id it returns for the next stored document
NewDocumentId(st) == IntToStr(Len(st) + 1)

\* database.create_document: the collection once the document is stored
Stored(st, doc) == Append(st, doc)

\* str(e) of a failure of the document store
StorageFailure == <<"s", "t", "o", "r", "a", "g", "e", " ", "u", "n", "a", "v", "a", "i", "l", "a", "b", "l", "e">>

CreateOrderResponse(order_id, total, subtotal, discount, status) ==
    [kind |-> "ok", order_id |-> order_id, total |-> total,
     subtotal |-> subtotal, discount |-> discount, status |-> status]

\* lines 120-125: the store is asked once; dbOk is whether it stores the document
Persist(st, order, dbOk) ==
    IF dbOk
    THEN [store |-> Stored(st, order),
          created |-> <<order>>,
          response |-> CreateOrderResponse(NewDocumentId(st), order.total,
                           order.subtotal, order.discount, order.status)]
    ELSE [store |-> st,
          created |-> <<order>>,
          response |-> HTTPException(500, <<"D", "a", "t", "a", "b", "a", "s", "e", " ", "e", "r", "r", "o", "r", ":", " ">> \o StorageFailure)]

\* variant: the lines priced before the offending one are stored, then the error raised
CreateOrderSavingPricedPrefix(p, st, dbOk) ==
    LET r == calculate_totals(p.items)
        done == IF r.kind = "ok" THEN r
                ELSE calculate_totals(SubSeq(p.items, 1, r.inspected - 1))
        saved == Persist(st, Order(p, done.order_items, done.subtotal,
                                   done.discount, done.total), dbOk)
    IN  IF r.kind = "error"
        THEN [saved EXCEPT !.response = HTTPException(r.status_code, r.detail)]
        ELSE saved

\* lines 105-125
CreateOrder(p, st, dbOk) ==
    LET r == calculate_totals(p.items)
    IN  IF r.kind = "error"
        THEN [store |-> st, created |-> <<>>,
              response |-> HTTPException(r.status_code, r.detail)]
        ELSE Persist(st, Order(p, r.order_items, r.subtotal, r.discount, r.total), dbOk)

MaxStore == 1
MaxOrderLines == 2

OrderLines ==
    {[name |-> <<"B", "a", "n", "a", "n", "a", " ", "S", "h", "a", "k", "e">>, quantity |-> 1],
     [name |-> <<" ", " ", "c", "o", "l", "d", " ", "D", "R", "I", "N", "K", " ">>, quantity |-> 3, unit_price |-> 100],
     [name |-> <<"P", "i", "z", "z", "a">>, quantity |-> 1],
     [name |-> <<" ", " ">>, quantity |-> 1],
     [name |-> <<"T", "e", "a">>, quantity |-> 0]}

Payloads ==
    [customer_name : {<<"A", "s", "h", "a">>},
     hostel_block : {<<"B">>},
     room_number : {<<"1", "2">>},
     phone : {<<"+", "9", "1", "9", "1", "6", "6", "5", "8", "5", "4", "0", "1">>},
     items : UNION {[1..n -> OrderLines] : n \in 0..MaxOrderLines},
     notes : {<<>>}]

Init ==
    /\ store = <<>> /\ payload = Idle /\ response = NoResult /\ createCalls = <<>>
    /\ items = <<>> /\ totals = NoResult
    /\ orders = <<>> /\ text = <<>> /\ env = Idle
    /\ smsPayload = Idle /\ smsResponse = NoResult /\ sendCalls = <<>>

\* POST /api/orders; a store holding MaxStore documents stores no more
create_order ==
    /\ payload = Idle
    /\ \E p \in Payloads, dbOk \in BOOLEAN :
        /\ dbOk => Len(store) < MaxStore
        /\ LET out == CreateOrder(p, store, dbOk)
           IN  /\ payload' = p
               /\ store' = out.store
               /\ createCalls' = out.created
               /\ response' = out.response
    /\ UNCHANGED <<items, totals, orders, text, env, smsPayload, smsResponse,
                   sendCalls>>

\* the response (or the error) goes out and the request's locals are gone
order_request_ends ==
    /\ payload # Idle
    /\ payload' = Idle /\ response' = NoResult /\ createCalls' = <<>>
    /\ UNCHANGED <<store, items, totals, orders, text, env, smsPayload,
                   smsResponse, sendCalls>>

Next == create_order \/ order_request_ends

Spec == Init /\ [][Next]_vars

-----------------------------------------------------------------------------
(* _format_orders_sms *)

MaxShown == 10
ItemsShown == 3
SmsLimit == 160
SmsKept == 157

Min(a, b) == IF a < b THEN a ELSE b

RECURSIVE JoinFrom(_, _, _)
JoinFrom(parts, i, sep) ==
    IF i > Len(parts) THEN <<>>
    ELSE IF i = Len(parts) THEN parts[i]
    ELSE parts[i] \o sep \o JoinFrom(parts, i + 1, sep)

\* sep.join(parts)
Join(parts, sep) == JoinFrom(parts, 1, sep)

\* line 160: the first three "name x quantity" of an order, comma-separated
ShortItems(its) ==
    LET all == [k \in 1..Len(its) |->
                   Get(its[k], "name", <<>>) \o <<"TIMES">>
                       \o IntToStr(Get(its[k], "quantity", 1))]
    IN  Join(SubSeq(all, 1, Min(ItemsShown, Len(all))), <<",", " ">>)

\* line 161
OrderLine(i, o) ==
    IntToStr(i) \o <<".", " ">> \o Get(o, "customer_name", <<"?">>) \o <<" ", "-", " ", "RUPEE">>
        \o IntToStr(RoundHalfEven(Get(o, "total", 0), 100))
        \o <<" ", "(">> \o ShortItems(Get(o, "items", <<>>)) \o <<")">>

\* orders[:10]
Shown(os) == SubSeq(os, 1, Min(MaxShown, Len(os)))

RECURSIVE SumTotals(_, _)
\* the totals of the first n of os, added in order
SumTotals(os, n) ==
    IF n = 0 THEN 0 ELSE SumTotals(os, n - 1) + Get(os[n], "total", 0)

\* lines 153-157: total_sum is accumulated inside the loop over orders[:10]
TotalSum(os) == SumTotals(Shown(os), Len(Shown(os)))

\* line 162
TrailingLine(os) ==
    <<"T", "o", "t", "a", "l", " ", "O", "r", "d", "e", "r", "s", ":", " ">> \o IntToStr(Len(os)) \o <<" ", "|", " ", "S", "u", "m", ":", " ", "RUPEE">>
        \o IntToStr(RoundHalfEven(TotalSum(os), 100))

\* lines 152-162: the list `lines`
SmsLines(os) ==
    LET shown == Shown(os)
    IN  <<<<"R", "T", "U", " ", "C", "a", "n", "t", "e", "e", "n", " ", "O", "r", "d", "e", "r", "s", ":">>>>
            \o [i \in 1..Len(shown) |-> OrderLine(i, shown[i])]
            \o <<TrailingLine(os)>>

\* variant: the cut keeps 160 characters before the marker
TruncateAtLimit(txt) ==
    IF Len(txt) > SmsLimit THEN SubSeq(txt, 1, SmsLimit) \o <<"ELLIPSIS">> ELSE txt

\* variant: the cut appends no marker
TruncateUnmarked(txt) ==
    IF Len(txt) > SmsLimit THEN SubSeq(txt, 1, SmsKept) ELSE txt

\* line 165
Truncate(txt) ==
    IF Len(txt) > SmsLimit THEN SubSeq(txt, 1, SmsKept) \o <<"ELLIPSIS">> ELSE txt

NoOrdersText == <<"R", "T", "U", " ", "C", "a", "n", "t", "e", "e", "n", ":", " ", "N", "o", " ", "r", "e", "c", "e", "n", "t", " ", "o", "r", "d", "e", "r", "s", ".">>

\* line 163: the summary before the length check
Summary(os) == Join(SmsLines(os), <<"\n">>)

_format_orders_sms(os) ==
    IF os = <<>> THEN NoOrdersText ELSE Truncate(Summary(os))

MaxOrders == 11

\* two requests as create_order receives them; the documents the formatter
\* is given are the orders create_order stores for them
SmsPayloads ==
    {[customer_name |-> <<"R", "a", "v", "i", " ", "K">>, hostel_block |-> <<"B">>,
      room_number |-> <<"1", "2">>, phone |-> <<"+", "9", "1", "9", "1", "6", "6", "5", "8", "5", "4", "0", "1">>, notes |-> <<>>,
      items |-> <<[name |-> <<"P", "a", "t", "t", "i", "e", "s">>, quantity |-> 2]>>],
     [customer_name |-> <<"B", "a", "l", "a", "s", "u", "b", "r", "a", "m", "a", "n", "i", "a", "n", " ", "K">>, hostel_block |-> <<"C">>,
      room_number |-> <<"7">>, phone |-> <<"+", "9", "1", "9", "1", "6", "6", "5", "8", "5", "4", "0", "2">>, notes |-> <<>>,
      items |-> <<[name |-> <<"T", "e", "a">>, quantity |-> 1],
                  [name |-> <<"c", "o", "f", "f", "e", "e">>, quantity |-> 1],
                  [name |-> <<"P", "a", "t", "t", "i", "e", "s">>, quantity |-> 2, unit_price |-> 100],
                  [name |-> <<"C", "o", "l", "d", " ", "D", "r", "i", "n", "k">>, quantity |-> 3]>>]}

SmsDocs == {CreateOrder(p, <<>>, TRUE).created[1] : p \in SmsPayloads}

InitFmt ==
    /\ orders \in UNION {[1..n -> SmsDocs] : n \in 0..MaxOrders}
    /\ text = <<>>
    /\ items = <<>> /\ totals = NoResult
    /\ store = <<>> /\ payload = Idle /\ response = NoResult /\ createCalls = <<>>
    /\ env = Idle /\ smsPayload = Idle /\ smsResponse = NoResult /\ sendCalls = <<>>

FormatOrdersSms ==
    /\ text = <<>>
    /\ text' = _format_orders_sms(orders)
    /\ UNCHANGED <<items, totals, store, payload, response, createCalls,
                   orders, env, smsPayload, smsResponse, sendCalls>>

NextFmt == FormatOrdersSms

SpecFmt == InitFmt /\ [][NextFmt]_vars

-----------------------------------------------------------------------------
(* sms_recent_orders *)

\* an Optional[str]: None, or a string
None == [set |-> FALSE]
Some(v) == [set |-> TRUE, value |-> v]

\* Python truth of an Optional[str]: None and "" are false
Truthy(v) == v.set /\ v.value # <<>>

\* a or b
OrElse(a, b) == IF Truthy(a) THEN a ELSE b

\* database.get_documents: at most `limit` documents of the collection; the
\* handler then writes each document's _id as a string (lines 171-172)
ListDocuments(st, limit) ==
    LET n == Min(limit, Len(st))
    IN  [k \in 1..n |-> [f \in DOMAIN st[k] \cup {"_id"} |->
                            IF f = "_id" THEN IntToStr(k) ELSE st[k][f]]]

\* str(e) of a failure of the SMS transport
SendFailure == <<"t", "r", "a", "n", "s", "p", "o", "r", "t", " ", "u", "n", "a", "v", "a", "i", "l", "a", "b", "l", "e">>

\* the sid of a message the transport accepted
MessageSid == <<"S", "M", "1">>

SMSOrdersResponse(sent, to, message_sid, preview) ==
    [kind |-> "ok", sent |-> sent, to |-> to, message_sid |-> message_sid,
     preview |-> preview]

\* variant: the sender id is not required
CredentialsWithoutSender(e) ==
    Truthy(e.TWILIO_ACCOUNT_SID) /\ Truthy(e.TWILIO_AUTH_TOKEN)

\* lines 184-188
CredentialsPresent(e) ==
    /\ Truthy(e.TWILIO_ACCOUNT_SID)
    /\ Truthy(e.TWILIO_AUTH_TOKEN)
    /\ Truthy(e.TWILIO_FROM_NUMBER)

\* line 170
EffectiveLimit(p) == IF p.limit # 0 THEN p.limit ELSE 10

\* lines 176-199, once the documents are listed; sendOk is whether the
\* transport accepts the message
SmsAfterListing(p, e, docs, sendOk) ==
    LET txt == _format_orders_sms(docs)
        target_phone == OrElse(p.phone, e.NOTIFY_PHONE)
        message == [body |-> txt, from_ |-> e.TWILIO_FROM_NUMBER,
                    to |-> target_phone.value]
    IN  IF ~Truthy(target_phone)
        THEN [text |-> txt, sent |-> <<>>,
              response |-> HTTPException(400,
                  <<"T", "a", "r", "g", "e", "t", " ", "p", "h", "o", "n", "e", " ", "n", "o", "t", " ", "p", "r", "o", "v", "i", "d", "e", "d", " ", "a", "n", "d", " ", "N", "O", "T", "I", "F", "Y", "_", "P", "H", "O", "N", "E", " ", "n", "o", "t", " ", "s", "e", "t">>)]
        ELSE IF ~CredentialsPresent(e)
        THEN [text |-> txt, sent |-> <<>>,
              response |-> SMSOrdersResponse(FALSE, target_phone.value, None, txt)]
        ELSE IF sendOk
        THEN [text |-> txt, sent |-> <<message>>,
              response |-> SMSOrdersResponse(TRUE, target_phone.value,
                               Some(MessageSid), txt)]
        ELSE [text |-> txt, sent |-> <<message>>,
              response |-> HTTPException(500, <<"S", "M", "S", " ", "s", "e", "n", "d", " ", "f", "a", "i", "l", "e", "d", ":", " ">> \o SendFailure)]

\* lines 168-199; listOk is whether the document store answers
SmsRecentOrders(p, e, st, listOk, sendOk) ==
    IF ~listOk
    THEN [text |-> <<>>, sent |-> <<>>,
          response |-> HTTPException(500, <<"D", "a", "t", "a", "b", "a", "s", "e", " ", "e", "r", "r", "o", "r", ":", " ">> \o StorageFailure)]
    ELSE SmsAfterListing(p, e, ListDocuments(st, EffectiveLimit(p)), sendOk)

MaxSmsStore == 2

\* no phone, an empty phone, a phone
Phones == {None, Some(<<>>), Some(<<"+", "9", "1", "9", "1", "6", "6", "5", "8", "5", "4", "0", "1">>)}
\* 0 makes the handler fall back to 10
Limits == {0, 1}
EnvValues == {None, Some(<<"x">>)}

SMSOrdersRequests == [phone : Phones, limit : Limits]

Environments ==
    [NOTIFY_PHONE : {None, Some(<<"+", "9", "1", "9", "1", "6", "6", "5", "8", "5", "4", "0", "2">>)},
     TWILIO_ACCOUNT_SID : EnvValues \cup {Some(<<>>)},
     TWILIO_AUTH_TOKEN : EnvValues,
     TWILIO_FROM_NUMBER : EnvValues]

InitSms ==
    /\ store \in UNION {[1..n -> SmsDocs] : n \in 0..MaxSmsStore}
    /\ env \in Environments
    /\ smsPayload = Idle /\ smsResponse = NoResult /\ sendCalls = <<>>
    /\ text = <<>> /\ orders = <<>>
    /\ items = <<>> /\ totals = NoResult
    /\ payload = Idle /\ response = NoResult /\ createCalls = <<>>

\* POST /api/notify/orders
sms_recent_orders ==
    \E p \in SMSOrdersRequests, listOk \in BOOLEAN, sendOk \in BOOLEAN :
        LET out == SmsRecentOrders(p, env, store, listOk, sendOk)
        IN  /\ smsPayload' = p
            /\ text' = out.text
            /\ sendCalls' = out.sent
            /\ smsResponse' = out.response
            /\ UNCHANGED <<items, totals, store, payload, response, createCalls,
                           orders, env>>

\* GET /api/notify/orders: builds the request from the query and calls the
\* POST handler (lines 203-207); limit defaults to 10
sms_recent_orders_get ==
    \E phone \in Phones, limit \in Limits \cup {10},
       listOk \in BOOLEAN, sendOk \in BOOLEAN :
        LET p == [phone |-> phone, limit |-> limit]
            out == SmsRecentOrders(p, env, store, listOk, sendOk)
        IN  /\ smsPayload' = p
            /\ text' = out.text
            /\ sendCalls' = out.sent
            /\ smsResponse' = out.response
            /\ UNCHANGED <<items, totals, store, payload, response, createCalls,
                           orders, env>>

NextSms == sms_recent_orders \/ sms_recent_orders_get

SpecSms == InitSms /\ [][NextSms]_vars

-----------------------------------------------------------------------------
(* What the claims about calculate_totals compare its result with *)

Menu == BEVERAGES \o FAST_FOOD

MenuNamesFolded == [k \in 1..Len(Menu) |-> Lower(Menu[k].name)]

\* the menu's entries whose name is nm up to letter case and surrounding whitespace
MenuEntriesFor(nm) ==
    LET folded == Lower(Strip(nm))
    IN  {k \in 1..Len(Menu) : MenuNamesFolded[k] = folded}

OnMenu(nm) == MenuEntriesFor(nm) # {}

MenuPriceFor(nm) == Menu[CHOOSE k \in MenuEntriesFor(nm) : TRUE].price

Malformed(raw) ==
    \/ "name" \notin DOMAIN raw
    \/ "quantity" \notin DOMAIN raw
    \/ Strip(raw.name) = <<>>
    \/ raw.quantity < 1

Offending(raw) == Malformed(raw) \/ ~OnMenu(raw.name)

FirstOffending(its) ==
    CHOOSE k \in 1..Len(its) : Offending(its[k]) /\ \A j \in 1..(k - 1) : ~Offending(its[j])

Accepted(its) == \A k \in 1..Len(its) : ~Offending(its[k])

RECURSIVE SumOfLines(_, _)
\* the sum, in input order, of menu price x quantity over the first n lines
SumOfLines(its, n) ==
    IF n = 0 THEN 0
    ELSE SumOfLines(its, n - 1) + MenuPriceFor(its[n].name) * its[n].quantity

\* the same request without any client-supplied unit_price
WithoutClientPrices(its) ==
    [k \in 1..Len(its) |->
        [f \in (DOMAIN its[k]) \ {"unit_price"} |-> its[k][f]]]

Tampered(raw) ==
    "unit_price" \in DOMAIN raw /\ ~Offending(raw) /\ raw.unit_price # MenuPriceFor(raw.name)

\* C1: every returned OrderItem carries the menu's price for its name, whatever
\* unit_price the client sent, and the result is the one the same lines give
\* with every client unit_price removed (so any two requests that differ only
\* in their unit_price values get identical items, subtotal, discount, total).
C1_ServerPriceOnly ==
    totals.kind = "ok" =>
        /\ Len(totals.order_items) = Len(items)
        /\ \A k \in 1..Len(items) :
               totals.order_items[k].unit_price = MenuPriceFor(items[k].name)
        /\ totals = calculate_totals(WithoutClientPrices(items))

C1_Witness ==
    /\ totals.kind = "ok"
    /\ Len(items) = 2
    /\ Tampered(items[1]) /\ items[1].unit_price < 0
    /\ Tampered(items[2]) /\ items[2].unit_price > MenuPriceFor(items[2].name)

\* C3: the discount is 20% of the unrounded subtotal, to the nearest paisa,
\* exactly when that subtotal is strictly above 299.00, and 0 otherwise.
C3_DiscountRule ==
    totals.kind = "ok" =>
        LET s == SumOfLines(items, Len(items))
        IN  /\ s > 29900 => /\ 100 * totals.discount - 20 * s <= 50
                            /\ 20 * s - 100 * totals.discount <= 50
                            /\ totals.discount > 0
            /\ s <= 29900 => totals.discount = 0

\* the smallest subtotal above the threshold that the menu can produce
C3_Witness ==
    /\ totals.kind = "ok"
    /\ totals.subtotal = 30000
    /\ totals.discount = 6000
    /\ totals.total = 24000

C3_WitnessBelow ==
    /\ totals.kind = "ok"
    /\ totals.subtotal = 29000
    /\ totals.discount = 0

\* C4: subtotal is the sum over the lines of menu price x quantity, every
\* item's subtotal is unit_price x quantity, total = subtotal - discount and
\* 0 <= discount <= subtotal.
C4_TotalsInvariant ==
    totals.kind = "ok" =>
        /\ totals.subtotal = SumOfLines(items, Len(items))
        /\ \A k \in 1..Len(totals.order_items) :
               LET it == totals.order_items[k]
               IN  /\ it.subtotal = it.unit_price * it.quantity
                   /\ it.quantity = items[k].quantity
                   /\ OrderItemValid(it)
        /\ totals.total = totals.subtotal - totals.discount
        /\ 0 <= totals.discount /\ totals.discount <= totals.subtotal

C4_Witness ==
    /\ totals.kind = "ok"
    /\ Len(totals.order_items) = 2
    /\ totals.order_items[1].quantity = 2
    /\ totals.order_items[1].unit_price # totals.order_items[2].unit_price
    /\ totals.discount > 0

\* C10: the first offending line, in input order, decides the error and no
\* later line is read; a malformed line (empty trimmed name or quantity < 1)
\* gives "Invalid item in order" even when its name is not on the menu, any
\* other offending line gives "Unknown menu item: <trimmed name>"; a line
\* whose name is a menu name up to case and surrounding whitespace, with
\* quantity >= 1, is never the line that fails.
C10_FirstOffendingLine ==
    totals.kind # "none" =>
        IF Accepted(items) THEN totals.kind = "ok" /\ totals.inspected = Len(items)
        ELSE LET k == FirstOffending(items)
             IN  /\ totals.kind = "error"
                 /\ totals.status_code = 400
                 /\ totals.inspected = k
                 /\ totals.detail =
                        IF Malformed(items[k])
                        THEN <<"I", "n", "v", "a", "l", "i", "d", " ", "i", "t", "e", "m", " ", "i", "n", " ", "o", "r", "d", "e", "r">>
                        ELSE <<"U", "n", "k", "n", "o", "w", "n", " ", "m", "e", "n", "u", " ", "i", "t", "e", "m", ":", " ">> \o Strip(items[k].name)

\* an accepted variant-case line, then an unknown name with quantity 0, then
\* nothing: the error is the second line's, and it is InvalidItem
C10_Witness ==
    /\ totals.kind = "error"
    /\ Len(items) = 2
    /\ totals.inspected = 2
    /\ items[1].name = <<" ", " ", "c", "o", "l", "d", " ", "D", "R", "I", "N", "K", " ">>
    /\ items[2].name = <<"P", "i", "z", "z", "a">> /\ items[2].quantity = 0
    /\ totals.detail = <<"I", "n", "v", "a", "l", "i", "d", " ", "i", "t", "e", "m", " ", "i", "n", " ", "o", "r", "d", "e", "r">>

C10_WitnessUnknown ==
    /\ totals.kind = "error"
    /\ Len(items) = 2
    /\ totals.inspected = 1
    /\ items[1] = [name |-> <<"P", "i", "z", "z", "a">>, quantity |-> 1]
    /\ Offending(items[2])
    /\ totals.detail = <<"U", "n", "k", "n", "o", "w", "n", " ", "m", "e", "n", "u", " ", "i", "t", "e", "m", ":", " ", "P", "i", "z", "z", "a">>

\* the order create_order must hand to the store for payload p
PricedOrderOf(p, doc) ==
    /\ doc.customer_name = p.customer_name /\ doc.phone = p.phone
    /\ doc.hostel_block = p.hostel_block /\ doc.room_number = p.room_number
    /\ doc.status = "placed"
    /\ Len(doc.items) = Len(p.items)
    /\ \A k \in 1..Len(p.items) :
           /\ doc.items[k].name = Strip(p.items[k].name)
           /\ doc.items[k].quantity = p.items[k].quantity
           /\ doc.items[k].unit_price = MenuPriceFor(p.items[k].name)
           /\ doc.items[k].subtotal = MenuPriceFor(p.items[k].name) * p.items[k].quantity
    /\ doc.subtotal = SumOfLines(p.items, Len(p.items))
    /\ doc.discount \in {0, doc.subtotal \div 5}
    /\ doc.total = doc.subtotal - doc.discount

\* C2: a request with an offending line fails as a client error, makes no
\* create call and leaves the store as it was; a request whose lines are all
\* valid makes exactly one create call, with the fully priced order, and the
\* store gains that order or (the store failing) nothing.
C2_PersistOnlyValidated ==
    [][ IF payload' = Idle THEN store' = store
        ELSE IF Accepted(payload'.items)
        THEN /\ Len(createCalls') = 1
             /\ PricedOrderOf(payload', createCalls'[1])
             /\ store' \in {store, Append(store, createCalls'[1])}
             /\ (response'.kind = "ok") = (store' # store)
        ELSE /\ createCalls' = <<>>
             /\ store' = store
             /\ response'.kind = "error" /\ response'.status_code = 400 ]_vars

\* a rejected request arriving after an order was stored, and a stored
\* discounted order
C2_Witness ==
    /\ payload # Idle
    /\ Len(payload.items) = 2
    /\ Accepted(<<payload.items[1]>>) /\ ~Accepted(<<payload.items[2]>>)
    /\ response.kind = "error"
    /\ createCalls = <<>>
    /\ Len(store) = 1 /\ store[1].discount > 0

C2_WitnessStored ==
    /\ payload # Idle
    /\ response.kind = "ok"
    /\ Len(createCalls) = 1
    /\ store = <<createCalls[1]>>
    /\ Len(store[1].items) = 2

\* C5: the returned text never exceeds 160 characters, and it is the
\* untruncated summary whenever that summary has 160 characters or fewer.
C5_AtMostSmsLimit ==
    text # <<>> =>
        /\ Len(text) <= 160
        /\ orders # <<>> /\ Len(Summary(orders)) <= 160 => text = Summary(orders)

\* a summary of exactly 160 characters returned whole
C5_Witness ==
    /\ text # <<>> /\ orders # <<>>
    /\ Len(Summary(orders)) = 160
    /\ text = Summary(orders)

C5_WitnessCut ==
    /\ text # <<>> /\ orders # <<>>
    /\ Len(Summary(orders)) = 161
    /\ Len(text) < 161

\* C6, as claimed: a summary longer than 160 characters comes back exactly
\* 160 characters long, 157 of the summary then a 3-character marker.
C6_Claimed ==
    text # <<>> /\ orders # <<>> /\ Len(Summary(orders)) > 160 =>
        /\ Len(text) = 160
        /\ SubSeq(text, 1, 157) = SubSeq(Summary(orders), 1, 157)

\* C6, amended: a summary longer than 160 characters comes back exactly 158
\* characters long: its first 157 characters, then the one-character
\* ellipsis, with which the text ends.
C6_Truncated158 ==
    text # <<>> /\ orders # <<>> /\ Len(Summary(orders)) > 160 =>
        /\ Len(text) = 158
        /\ SubSeq(text, 1, 157) = SubSeq(Summary(orders), 1, 157)
        /\ text[158] = "ELLIPSIS"

\* the shortest summary that is cut
C6_Witness ==
    /\ text # <<>> /\ orders # <<>>
    /\ Len(Summary(orders)) = 161
    /\ Len(text) = 158
    /\ text[158] = "ELLIPSIS"

\* the sum of total over every order passed in
SumOverAll(os) == SumTotals(os, Len(os))

\* C7: the trailing line gives the number of ALL orders passed in and the
\* sum of total over ALL of them, each as a rounded integer.
C7_TrailingLineCoversAll ==
    text # <<>> /\ orders # <<>> =>
        LET lines == SmsLines(orders)
        IN  lines[Len(lines)] =
                <<"T", "o", "t", "a", "l", " ", "O", "r", "d", "e", "r", "s", ":", " ">> \o IntToStr(Len(orders)) \o <<" ", "|", " ", "S", "u", "m", ":", " ", "RUPEE">>
                    \o IntToStr(RoundHalfEven(SumOverAll(orders), 100))

AnyCredentialAbsent ==
    \/ ~Truthy(env.TWILIO_ACCOUNT_SID)
    \/ ~Truthy(env.TWILIO_AUTH_TOKEN)
    \/ ~Truthy(env.TWILIO_FROM_NUMBER)

PhoneAvailable == Truthy(smsPayload.phone) \/ Truthy(env.NOTIFY_PHONE)

RECURSIVE ContainsFrom(_, _, _)
ContainsFrom(s, sub, k) ==
    IF k + Len(sub) - 1 > Len(s) THEN FALSE
    ELSE IF SubSeq(s, k, k + Len(sub) - 1) = sub THEN TRUE
    ELSE ContainsFrom(s, sub, k + 1)

\* the outcome carries the preview: as its preview field or inside its detail
CarriesPreview(r, preview) ==
    \/ "preview" \in DOMAIN r /\ r.preview = preview
    \/ "detail" \in DOMAIN r /\ ContainsFrom(r.detail, preview, 1)

\* C8, as claimed: with a credential absent, every request whose orders
\* were listed ends without a send, not as an error, with sent=false and the
\* preview, whether or not a target phone was supplied.
C8_Claimed ==
    smsPayload # Idle /\ AnyCredentialAbsent /\ text # <<>> =>
        /\ sendCalls = <<>>
        /\ smsResponse.kind = "ok"
        /\ smsResponse.sent = FALSE
        /\ smsResponse.preview = text

\* C8, amended: with a credential absent no request sends; when the orders
\* were listed and a target phone is available (in the request or in
\* NOTIFY_PHONE) the request ends, not as an error, with sent=false, no
\* message sid and the computed preview; when the orders were listed and no
\* target phone is available it ends as a 400 error without a preview.
C8_NoSendWithoutCredentials ==
    smsPayload # Idle /\ AnyCredentialAbsent =>
        /\ sendCalls = <<>>
        /\ text # <<>> /\ PhoneAvailable =>
               /\ smsResponse.kind = "ok"
               /\ smsResponse.sent = FALSE
               /\ smsResponse.message_sid = None
               /\ smsResponse.preview = text
               /\ text = _format_orders_sms(
                             ListDocuments(store, EffectiveLimit(smsPayload)))
        /\ text # <<>> /\ ~PhoneAvailable =>
               smsResponse.kind = "error" /\ smsResponse.status_code = 400

\* only the sender id is missing and the phone comes from NOTIFY_PHONE
C8_Witness ==
    /\ smsPayload # Idle
    /\ ~Truthy(env.TWILIO_FROM_NUMBER)
    /\ Truthy(env.TWILIO_ACCOUNT_SID) /\ Truthy(env.TWILIO_AUTH_TOKEN)
    /\ ~Truthy(smsPayload.phone) /\ Truthy(env.NOTIFY_PHONE)
    /\ Len(store) = 2 /\ smsPayload.limit = 1
    /\ smsResponse.kind = "ok" /\ smsResponse.sent = FALSE
    /\ smsResponse.preview = text /\ Len(text) > 30
    /\ sendCalls = <<>>

\* C9: with all credentials present and the send failing, the request ends
\* as a server-side fault after exactly one send, and the outcome still
\* carries the computed preview text.
C9_SendFailureKeepsPreview ==
    /\ smsPayload # Idle
    /\ ~AnyCredentialAbsent
    /\ Len(sendCalls) = 1
    /\ smsResponse.kind = "error"
    => /\ smsResponse.status_code = 500
       /\ sendCalls[1].body = text
       /\ CarriesPreview(smsResponse, text)

\* what the code does hold there: one send, a 500, and no preview
C9_SendFailureObserved ==
    /\ smsPayload # Idle
    /\ ~AnyCredentialAbsent
    /\ Len(sendCalls) = 1
    /\ smsResponse.kind = "error"
    /\ smsResponse.status_code = 500
    /\ smsResponse.detail = <<"S", "M", "S", " ", "s", "e", "n", "d", " ", "f", "a", "i", "l", "e", "d", ":", " ", "t", "r", "a", "n", "s", "p", "o", "r", "t", " ", "u", "n", "a", "v", "a", "i", "l", "a", "b", "l", "e">>
    /\ ~CarriesPreview(smsResponse, text)

====
